---------------------------- MODULE Spec2Model ----------------------------
(***************************************************************************)
(* A model of src/job_search/job_search.py: the resume extraction with its *)
(* two PDF backends, the construction of the four tasks, the run of the    *)
(* crew with the per-task log callback, and the job search tool.           *)
(*                                                                         *)
(* A text (a Python str) is a sequence of symbols.  A symbol is a TLA+     *)
(* string that stands for a fixed run of characters: one character (" ",   *)
(* "\n", "a") or a literal of the source kept whole.  Concatenation is \o,  *)
(* `x in s` is Contains(s, x), s.strip() is empty iff IsBlank(s).          *)
(***************************************************************************)
EXTENDS Integers, Sequences, FiniteSets, TLC

\* ------------------------------------------------------------------ bounds

\* Longest resume path, in symbols.
MaxPathLen == 2
\* Most pages of a resume PDF.
MaxPages == 2
\* Most search_jobs invocations on one system.
MaxRuns == 2

\* ------------------------------------------------------------------- texts

Whitespace == {" ", "\n"}

\* s.strip() == "" : every character of s is whitespace.
IsBlank(s) == \A i \in 1..Len(s) : s[i] \in Whitespace

\* sub in s : sub occurs in s as a contiguous run.
Contains(s, sub) ==
    \E i \in 0..(Len(s) - Len(sub)) : SubSeq(s, i + 1, i + Len(sub)) = sub

\* The sequences over S of length at most n.
SeqsUpTo(S, n) == UNION {[1..k -> S] : k \in 0..n}

\* The success marker parse_resume looks for in the returned text; it is two
\* symbols long so that `in` is a search for a run, not for one symbol.
Marker == <<"[ok] Resume parsed", " successfully!">>

\* -------------------------------------------------- _parse_resume_direct

\* What page.extract_text() gives for one page: None, or a text.
NoText == [kind |-> "none"]
Text(s) == [kind |-> "text", text |-> s]
PageTexts == {NoText, Text(<<>>), Text(<<" ">>), Text(<<"a">>)}

\* What a backend does with a file: it throws, or it opens the PDF and
\* gives the text of every page.  A throw carries str(e): a message of the
\* library, or the message of an OSError of open(), which quotes the path.
LibraryError == [kind |-> "throw", error |-> "library"]
OSError == [kind |-> "throw", error |-> "oserror"]
Pages(ps) == [kind |-> "pages", pages |-> ps]
BackendOutcomes ==
    {LibraryError, OSError} \cup {Pages(ps) : ps \in SeqsUpTo(PageTexts, MaxPages)}
NotTried == [kind |-> "not tried"]

\* str(e) of a thrown exception.
ErrorText(outcome, path) ==
    IF outcome.error = "oserror"
    THEN <<"[Errno 13] Permission denied: '">> \o path \o <<"'">>
    ELSE <<"EOF marker not found">>

NotFoundMessage(path) ==
    <<"Error: Resume file not found at ">> \o path
        \o <<". Please check the file path.">>

ParsedMessage(text) == Marker \o <<"\n", "\n", "Resume Content:", "\n">> \o text

NoTextMessage ==
    <<"Error: Could not extract text from PDF. The file might be image-based or corrupted.">>

FailedMessage(err) == <<"Error: Failed to parse resume PDF. ">> \o err

\* pdfplumber loop: a page whose text is None or "" is skipped.
RECURSIVE PlumberText(_)
PlumberText(ps) ==
    IF ps = <<>> THEN <<>>
    ELSE (IF Head(ps).kind = "text" /\ Head(ps).text # <<>>
          THEN Head(ps).text \o <<"\n">> ELSE <<>>) \o PlumberText(Tail(ps))

\* PyPDF2 loop: text += page.extract_text() + "\n" for every page; str + None
\* raises TypeError.
PyPdf2Raises(ps) == \E i \in 1..Len(ps) : ps[i].kind = "none"

RECURSIVE PyPdf2Text(_)
PyPdf2Text(ps) ==
    IF ps = <<>> THEN <<>>
    ELSE Head(ps).text \o <<"\n">> \o PyPdf2Text(Tail(ps))

TypeErrorText == <<"can only concatenate str (not \"NoneType\") to str">>

\* The primary try block: the text it returns, or <<>> when control falls
\* through to the fallback (a throw, or only whitespace).
PrimaryReturns(outcome) ==
    outcome.kind = "pages" /\ ~IsBlank(PlumberText(outcome.pages))

\* The fallback try block: what _parse_resume_direct returns from it.
SecondaryResult(outcome, path) ==
    IF outcome.kind = "throw" THEN FailedMessage(ErrorText(outcome, path))
    ELSE IF PyPdf2Raises(outcome.pages) THEN FailedMessage(TypeErrorText)
    ELSE IF ~IsBlank(PyPdf2Text(outcome.pages))
         THEN ParsedMessage(PyPdf2Text(outcome.pages))
    ELSE NoTextMessage

\* parse_resume keeps the returned text iff the success marker occurs in it.
Keeps(ret) == Contains(ret, Marker)


\* ------------------------------------------------------------- setup_tasks

\* Mutant: the crew lists the interview task before the skills task.
TasksSwapped ==
    <<"job_search_task", "interview_prep_task", "skills_analysis_task",
      "career_strategy_task">>

\* crew.tasks, in the order setup_crew lists them.
Tasks ==
    <<"job_search_task", "skills_analysis_task", "interview_prep_task",
      "career_strategy_task">>

TaskSet == {Tasks[i] : i \in 1..Len(Tasks)}

\* Task.context of each task.
Context(t) ==
    CASE t = "job_search_task" -> <<>>
      [] t = "skills_analysis_task" -> <<"job_search_task">>
      [] t = "interview_prep_task" -> <<"job_search_task", "skills_analysis_task">>
      [] t = "career_strategy_task" -> <<"job_search_task", "skills_analysis_task">>

\* Task.agent of each task, by the agent's role.
AgentOf(t) ==
    CASE t = "job_search_task" -> "Senior Job Search Specialist"
      [] t = "skills_analysis_task" -> "Personalized Skills Development Advisor"
      [] t = "interview_prep_task" -> "Personalized Interview Preparation Expert"
      [] t = "career_strategy_task" -> "Personalized Career Strategy Advisor"

\* The sentence each f-string splices in when self.resume_content is empty.
SkillsFallback ==
    <<"No resume provided", " - ", "provide general recommendations", ".">>
InterviewFallback == <<"Provide general interview preparation advice.">>
CareerFallback == <<"Provide general career strategy advice.">>

Fallback(t) ==
    CASE t = "skills_analysis_task" -> SkillsFallback
      [] t = "interview_prep_task" -> InterviewFallback
      [] t = "career_strategy_task" -> CareerFallback

\* The words that introduce the resume when it is not empty.
ResumeIntro(t) ==
    CASE t = "skills_analysis_task" ->
            <<"Use the candidate resume content for context: ">>
      [] t = "interview_prep_task" ->
            <<"Base recommendations on candidate resume: ">>
      [] t = "career_strategy_task" ->
            <<"Base all recommendations on candidate background: ">>

\* The static instructions of each task.
Template(t) ==
    CASE t = "job_search_task" ->
            <<"Search for current job openings based on the specified role and location.">>
      [] t = "skills_analysis_task" ->
            <<"Analyze the job openings and create a PERSONALIZED skills assessment:">>
      [] t = "interview_prep_task" ->
            <<"Create a PERSONALIZED interview preparation strategy:">>
      [] t = "career_strategy_task" ->
            <<"Develop a PERSONALIZED career strategy plan:">>

\* Mutant: the f-strings splice the fallback sentence in whether or not there
\* is a resume.
TaskDescriptionDropsResume(t, resume) ==
    IF t = "job_search_task" THEN Template(t) ELSE Template(t) \o Fallback(t)

\* The description setup_tasks gives task t.
TaskDescription(t, resume) ==
    IF t = "job_search_task" THEN Template(t)
    ELSE Template(t)
            \o (IF resume # <<>> THEN ResumeIntro(t) \o resume ELSE Fallback(t))

setup_tasks(resume) == [t \in TaskSet |-> TaskDescription(t, resume)]

\* ------------------------------------------------------------------- state

VARIABLES
    pc,               \* where control is
    resume_path,      \* self.resume_path
    resume_content,   \* self.resume_content
    direct_ret,       \* what _parse_resume_direct returned
    file_exists,      \* os.path.exists(path): "unchecked", "yes", "no"
    primary,          \* what pdfplumber did, or NotTried
    secondary,        \* what PyPDF2 did, or NotTried
    secondary_calls,  \* how many times the PyPDF2 block was entered
    description,      \* task -> Task.description
    query,            \* role, location, num_results of the current search
    log,              \* task_output.txt, one entry per file.write group
    log_run,          \* for each entry of log, the search that wrote it
    cur,              \* index in Tasks of the task the crew is at
    task_output,      \* task -> Task.output
    task_input,       \* task -> the prompt the backend was given in this run
    started,          \* tasks started in this run, in order
    completed,        \* tasks whose backend call returned in this run, in order
    callbacks,        \* the callbacks run in this run: task and outcome
    failed,           \* the task whose backend call threw in this run, or ""
    ret,              \* what the last search_jobs returned
    runs,             \* search_jobs invocations so far
    tool_env,         \* the tool's environment: name -> "unset", "empty", "set"
    tool_input,       \* the tool's input_json
    tool_http,        \* what requests.get did, or NoRequest
    tool_ret,         \* what the tool returned, or that it raised
    http_requests     \* HTTP requests the tool issued

resumeVars ==
    <<resume_path, resume_content, direct_ret, file_exists, primary, secondary,
      secondary_calls>>
crewVars ==
    <<query, log, log_run, cur, task_output, task_input, started, completed,
      callbacks, failed, ret, runs>>
toolVars == <<tool_env, tool_input, tool_http, tool_ret, http_requests>>
vars == <<pc, resumeVars, description, crewVars, toolVars>>

NoQuery == [role |-> "", location |-> "", num_results |-> 0]
NotReturned == [kind |-> "not returned"]
NoRequest == [kind |-> "no request"]

crewInit ==
    /\ query = NoQuery
    /\ log = <<>>
    /\ log_run = <<>>
    /\ cur = 0
    /\ task_output = [t \in TaskSet |-> NoText]
    /\ task_input = [t \in TaskSet |-> <<>>]
    /\ started = <<>>
    /\ completed = <<>>
    /\ callbacks = <<>>
    /\ failed = ""
    /\ ret = NotReturned
    /\ runs = 0

toolInit ==
    /\ tool_env = [v \in {} |-> "unset"]
    /\ tool_input = [kind |-> "none"]
    /\ tool_http = NoRequest
    /\ tool_ret = NotReturned
    /\ http_requests = <<>>

\* ---------------------------------------------------------------- __init__

PathSymbols == {"r"} \cup {Marker[i] : i \in 1..Len(Marker)}
Paths == SeqsUpTo(PathSymbols, MaxPathLen)

\* Before the constructor runs.
InitResume ==
    /\ pc = "new"
    /\ resume_path = <<>>
    /\ resume_content = <<>>
    /\ direct_ret = <<>>
    /\ file_exists = "unchecked"
    /\ primary = NotTried
    /\ secondary = NotTried
    /\ secondary_calls = 0
    /\ description = [t \in TaskSet |-> <<>>]
    /\ crewInit
    /\ toolInit

\* __init__ up to the call of parse_resume: the key check, the fields.  A
\* path of None or "" is falsy and skips the parse.
init_begin ==
    /\ pc = "new"
    /\ \E key \in BOOLEAN, path \in Paths :
        /\ resume_path' = (IF key THEN path ELSE resume_path)
        /\ pc' = IF ~key THEN "ValueError"
                 ELSE IF path # <<>> THEN "exists" ELSE "setup"
    /\ UNCHANGED <<resume_content, direct_ret, file_exists, primary, secondary,
                   secondary_calls, description, crewVars, toolVars>>

\* _parse_resume_direct: the os.path.exists test.
direct_exists ==
    /\ pc = "exists"
    /\ \E e \in BOOLEAN :
        /\ file_exists' = (IF e THEN "yes" ELSE "no")
        /\ direct_ret' = (IF e THEN direct_ret ELSE NotFoundMessage(resume_path))
        /\ pc' = IF e THEN "primary" ELSE "check"
    /\ UNCHANGED <<resume_path, resume_content, primary, secondary,
                   secondary_calls, description, crewVars, toolVars>>

\* _parse_resume_direct: the pdfplumber block.
direct_primary ==
    /\ pc = "primary"
    /\ \E o \in BackendOutcomes :
        /\ primary' = o
        /\ direct_ret' = (IF PrimaryReturns(o)
                          THEN ParsedMessage(PlumberText(o.pages)) ELSE direct_ret)
        /\ pc' = IF PrimaryReturns(o) THEN "check" ELSE "secondary"
    /\ UNCHANGED <<resume_path, resume_content, file_exists, secondary,
                   secondary_calls, description, crewVars, toolVars>>

\* _parse_resume_direct: the PyPDF2 block.
direct_secondary ==
    /\ pc = "secondary"
    /\ \E o \in BackendOutcomes :
        /\ secondary' = o
        /\ direct_ret' = SecondaryResult(o, resume_path)
    /\ secondary_calls' = secondary_calls + 1
    /\ pc' = "check"
    /\ UNCHANGED <<resume_path, resume_content, file_exists, primary,
                   description, crewVars, toolVars>>

\* parse_resume after the call: keep the text or reset it to "".
parse_resume_check ==
    /\ pc = "check"
    /\ resume_content' = (IF Keeps(direct_ret) THEN direct_ret ELSE <<>>)
    /\ pc' = "setup"
    /\ UNCHANGED <<resume_path, direct_ret, file_exists, primary, secondary,
                   secondary_calls, description, crewVars, toolVars>>

\* __init__ after parse_resume: setup_agents, setup_tasks, setup_crew.
init_setup ==
    /\ pc = "setup"
    /\ description' = setup_tasks(resume_content)
    /\ pc' = "idle"
    /\ UNCHANGED <<resumeVars, crewVars, toolVars>>

NextResume ==
    \/ init_begin
    \/ direct_exists
    \/ direct_primary
    \/ direct_secondary
    \/ parse_resume_check
    \/ init_setup

SpecResume == InitResume /\ [][NextResume]_vars

\* -------------------------------------------------------------- search_jobs

\* What the caller passes to search_jobs.
Roles == {"Data Scientist", "Nurse"}
Locations == {"New York"}
NumResults == {5}
Queries == [role : Roles, location : Locations, num_results : NumResults]

\* What the completion backend may answer for a task.
Outputs == {<<"x">>, <<"y">>}

\* The header search_jobs writes with mode "w" (the Date line, the clock's
\* reading, is left out).
Header(q, resume) ==
    [kind |-> "header", role |-> q.role, location |-> q.location,
     resume |-> IF resume # <<>> THEN "Yes" ELSE "No"]

\* json.dumps of the three parameters.
search_params(q) ==
    <<"{\"role\": \"", q.role, "\", \"location\": \"", q.location,
      "\", \"num_results\": ", ToString(q.num_results), "}">>

\* The description search_jobs gives job_search_task.
SearchDescription(q) ==
    <<"Search for current job openings for the ", q.role, " role in ",
      q.location, " using the Job Search tool. Find ", ToString(q.num_results),
      " relevant positions that would be suitable for the candidate's background.",
      "Use this exact input: ">> \o search_params(q)

\* Mutant: the file is opened with mode "a".
AppendedLog(old, q, resume) == old \o <<Header(q, resume)>>

\* The file after open("task_output.txt", "w") and the header's writes.
TruncatedLog(old, q, resume) == <<Header(q, resume)>>

\* search_jobs up to crew.kickoff(): the log is reset, the search task gets
\* its description.
search_jobs_begin ==
    /\ pc = "idle"
    /\ runs < MaxRuns
    /\ \E q \in Queries :
        /\ query' = q
        /\ log' = TruncatedLog(log, q, resume_content)
        /\ log_run' = [i \in 1..(Len(log') - 1) |-> log_run[i]] \o <<runs + 1>>
        /\ description' =
              [description EXCEPT !["job_search_task"] = SearchDescription(q)]
    /\ runs' = runs + 1
    /\ cur' = 1
    /\ task_input' = [t \in TaskSet |-> <<>>]
    /\ started' = <<>>
    /\ completed' = <<>>
    /\ callbacks' = <<>>
    /\ failed' = ""
    /\ ret' = NotReturned
    /\ pc' = "kickoff"
    /\ UNCHANGED <<resumeVars, task_output, toolVars>>

\* ------------------------------------------------------------ crew.kickoff

\* The outputs of the tasks of a context list that have one, in the list's
\* order.
RECURSIVE ContextText(_, _)
ContextText(ctx, out) ==
    IF ctx = <<>> THEN <<>>
    ELSE (IF out[Head(ctx)].kind = "text" THEN out[Head(ctx)].text ELSE <<>>)
            \o ContextText(Tail(ctx), out)

\* What the backend is given for task t: its description and its context.
Prompt(t) == description[t] \o ContextText(Context(t), task_output)

\* The crew takes the next task of its list and hands it to the backend.
task_start ==
    /\ pc = "kickoff"
    /\ cur <= Len(Tasks)
    /\ task_input' = [task_input EXCEPT ![Tasks[cur]] = Prompt(Tasks[cur])]
    /\ started' = Append(started, Tasks[cur])
    /\ pc' = "executing"
    /\ UNCHANGED <<resumeVars, description, query, log, log_run, cur,
                   task_output, completed, callbacks, failed, ret, runs,
                   toolVars>>

\* The backend answers: the task has its output.
backend_returns ==
    /\ pc = "executing"
    /\ \E out \in Outputs :
        task_output' = [task_output EXCEPT ![Tasks[cur]] = Text(out)]
    /\ completed' = Append(completed, Tasks[cur])
    /\ pc' = "callback"
    /\ UNCHANGED <<resumeVars, description, query, log, log_run, cur,
                   task_input, started, callbacks, failed, ret, runs, toolVars>>

\* The backend throws: kickoff raises.
backend_throws ==
    /\ pc = "executing"
    /\ failed' = Tasks[cur]
    /\ pc' = "raised"
    /\ UNCHANGED <<resumeVars, description, query, log, log_run, cur,
                   task_output, task_input, started, completed, callbacks, ret,
                   runs, toolVars>>

\* How the body of callback_function's try block may end: both writes done;
\* open (or the first write) raises, nothing written; the second write
\* raises after the title line.
CallbackOutcomes == {"written", "open raises", "result raises"}

TitleLine(t) ==
    [kind |-> "title", agent |-> AgentOf(t), description |-> description[t]]
ResultLine(t) == [kind |-> "result", result |-> task_output[t].text]

\* Mutant: the write of the result is left out.
CallbackWritesTitleOnly(t, outcome) ==
    IF outcome = "open raises" THEN <<>> ELSE <<TitleLine(t)>>

\* What callback_function appends to the file for task t.
CallbackWrites(t, outcome) ==
    CASE outcome = "written" -> <<TitleLine(t), ResultLine(t)>>
      [] outcome = "result raises" -> <<TitleLine(t)>>
      [] outcome = "open raises" -> <<>>

\* callback_function, called by the crew when a task has its output; an
\* exception of the writes is caught and printed, and the crew goes on.
callback_function ==
    /\ pc = "callback"
    /\ \E o \in CallbackOutcomes :
        /\ log' = log \o CallbackWrites(Tasks[cur], o)
        /\ log_run' = log_run \o [i \in 1..Len(CallbackWrites(Tasks[cur], o)) |-> runs]
        /\ callbacks' = Append(callbacks, [task |-> Tasks[cur], outcome |-> o])
    /\ cur' = cur + 1
    /\ pc' = "kickoff"
    /\ UNCHANGED <<resumeVars, description, query, task_output, task_input,
                   started, completed, failed, ret, runs, toolVars>>

\* kickoff's result: the last task's output, and every task's.
CrewOutput ==
    [kind |-> "result", raw |-> task_output[Tasks[Len(Tasks)]].text,
     tasks_output |-> [i \in 1..Len(Tasks) |-> task_output[Tasks[i]].text]]

None == [kind |-> "None"]

\* Mutant: the except block returns the outputs of the tasks that completed.
ExceptReturnPartial ==
    IF completed = <<>> THEN None
    ELSE [kind |-> "result",
          raw |-> task_output[completed[Len(completed)]].text,
          tasks_output |-> [i \in 1..Len(completed) |-> task_output[completed[i]].text]]

\* What the except block of search_jobs returns.
ExceptReturn == None

\* kickoff returns and search_jobs returns its result.
search_jobs_return ==
    /\ pc = "kickoff"
    /\ cur > Len(Tasks)
    /\ ret' = CrewOutput
    /\ pc' = "idle"
    /\ UNCHANGED <<resumeVars, description, query, log, log_run, cur,
                   task_output, task_input, started, completed, callbacks,
                   failed, runs, toolVars>>

\* kickoff raised: the except block prints the error and returns None.
search_jobs_except ==
    /\ pc = "raised"
    /\ ret' = ExceptReturn
    /\ pc' = "idle"
    /\ UNCHANGED <<resumeVars, description, query, log, log_run, cur,
                   task_output, task_input, started, completed, callbacks,
                   failed, runs, toolVars>>

\* The resume texts a constructed system starts the searches with: none, and
\* a parsed one-page resume.
ResumeContents == {<<>>, ParsedMessage(<<"a", "\n">>)}

\* A constructed system, before its first search.
Init ==
    /\ pc = "idle"
    /\ resume_content \in ResumeContents
    /\ resume_path = (IF resume_content = <<>> THEN <<>> ELSE <<"r">>)
    /\ direct_ret = resume_content
    /\ file_exists = (IF resume_content = <<>> THEN "unchecked" ELSE "yes")
    /\ primary = (IF resume_content = <<>> THEN NotTried
                  ELSE Pages(<<Text(<<"a">>)>>))
    /\ secondary = NotTried
    /\ secondary_calls = 0
    /\ description = setup_tasks(resume_content)
    /\ crewInit
    /\ toolInit

Next ==
    \/ search_jobs_begin
    \/ task_start
    \/ backend_returns
    \/ backend_throws
    \/ callback_function
    \/ search_jobs_return
    \/ search_jobs_except

Spec == Init /\ [][Next]_vars

\* ---------------------------------------------------- the Job Search tool

\* Most records in the results array of a response.
MaxResults == 2
\* The slice bound of the description excerpt.
ExcerptLen == 300

\* Mutant: the tool checks only the two credentials it uses itself.
required_vars_adzuna == <<"ADZUNA_APP_ID", "ADZUNA_API_KEY">>

required_vars == <<"OPENAI_API_KEY", "ADZUNA_APP_ID", "ADZUNA_API_KEY">>

\* The three credentials the .env file is to hold.
EnvNames == {"OPENAI_API_KEY", "ADZUNA_APP_ID", "ADZUNA_API_KEY"}

\* An environment gives each name no value, the empty string, or a value.
Envs == [EnvNames -> {"unset", "empty", "set"}]

\* os.getenv(var) is truthy.
Getenv(env, var) == env[var] = "set"

RECURSIVE Filter(_, _)
Filter(names, env) ==
    IF names = <<>> THEN <<>>
    ELSE (IF Getenv(env, Head(names)) THEN <<>> ELSE <<Head(names)>>)
            \o Filter(Tail(names), env)

\* [var for var in required_vars if not os.getenv(var)]
missing_vars(env) == Filter(required_vars, env)

RECURSIVE Bullets(_)
Bullets(names) ==
    IF names = <<>> THEN <<>>
    ELSE <<"   - ", Head(names), "\n">> \o Bullets(Tail(names))

\* error_msg of the missing-variables branch.
ConfigError(missing) ==
    <<"Missing required environment variables in .env file:\n">>
        \o Bullets(missing)
        \o <<"\nCreate a .env file in your project directory with:\n",
             "OPENAI_API_KEY", "=your_openai_api_key_here\n",
             "ADZUNA_APP_ID", "=your_adzuna_app_id_here\n",
             "ADZUNA_API_KEY", "=your_adzuna_api_key_here">>

SchemaError ==
    <<"Error: The tool accepts input in JSON format with the following schema: {'role': '<role>', 'location': '<location>', 'num_results': <number>}. Ensure to format the input accordingly.">>

CredentialsError ==
    <<"Error: Please set ADZUNA_APP_ID and ADZUNA_API_KEY in your .env file.">>

\* JSON values.
Absent == [kind |-> "absent"]
Null == [kind |-> "null"]
Str(s) == [kind |-> "str", s |-> s]
Num(n) == [kind |-> "num", s |-> <<n>>]
Obj(name) == [kind |-> "object", display_name |-> name]

\* input_json: a text that is not JSON, or a JSON document: a list, a number,
\* a string, null, or an object with some of the three keys.
ToolInputs ==
    {[kind |-> k, keys |-> {}] : k \in {"not json", "list", "number", "string", "null"}}
        \cup {[kind |-> "object", keys |-> ks] :
                ks \in SUBSET {"role", "location", "num_results"}}

\* The first try block after the environment check: json.loads and the three
\* reads.  JSONDecodeError and KeyError are caught; the TypeError of a
\* subscript on a value that is no object is not.
ValidateInput(input) ==
    IF input.kind = "not json" THEN "JSONDecodeError"
    ELSE IF input.kind # "object" THEN "TypeError"
    ELSE IF ~({"role", "location"} \subseteq input.keys) THEN "KeyError"
    ELSE "ok"

\* A description of n characters; those past the slice bound differ from
\* those before it.
Desc(n) == [i \in 1..n |-> IF i <= ExcerptLen THEN "d" ELSE "e"]

Fields ==
    {"title", "company", "location", "salary_min", "description", "redirect_url"}

FullRecord ==
    [kind |-> "object",
     title |-> Str(<<"Engineer">>),
     company |-> Obj(Str(<<"Acme">>)),
     location |-> Obj(Str(<<"NYC">>)),
     salary_min |-> Num("50000"),
     description |-> Str(Desc(ExcerptLen + 1)),
     redirect_url |-> Str(<<"http://job">>)]

EmptyRecord ==
    [kind |-> "object", title |-> Absent, company |-> Absent, location |-> Absent,
     salary_min |-> Absent, description |-> Absent, redirect_url |-> Absent]

FieldValues(f) ==
    CASE f = "title" -> {Absent, Str(<<"Engineer">>)}
      [] f = "company" -> {Absent, Null, Obj(Absent), Obj(Str(<<"Acme">>))}
      [] f = "location" -> {Absent, Null, Obj(Absent), Obj(Str(<<"NYC">>))}
      [] f = "salary_min" -> {Absent, Num("50000")}
      [] f = "description" ->
            {Absent, Null, Str(<<>>), Str(Desc(1)), Str(Desc(ExcerptLen)),
             Str(Desc(ExcerptLen + 1))}
      [] f = "redirect_url" -> {Absent, Str(<<"http://job">>)}

\* The records of a response: the full record, the empty one, and the full
\* record with one field changed.
Records ==
    {EmptyRecord}
        \cup UNION {{[FullRecord EXCEPT ![f] = v] : v \in FieldValues(f)} : f \in Fields}

\* What requests.get, raise_for_status and response.json() may do.
HttpOutcomes ==
    {[kind |-> k, results |-> Absent] :
        k \in {"connection error", "http error", "body not json", "body not object"}}
        \cup {[kind |-> "body", results |-> r] : r \in {Absent, Null}}
        \cup {[kind |-> "body", results |-> [kind |-> "list", items |-> rs]] :
                rs \in SeqsUpTo(Records, MaxResults)}

\* dict.get(key, default)
Get(field, default) == IF field.kind = "absent" THEN default ELSE field

\* str(value) in an f-string.
Render(v) == IF v.kind = "null" THEN <<"None">> ELSE v.s

\* job.get(key, {}).get('display_name', 'N/A') raises AttributeError on null.
NestedRaises(field) == field.kind = "null"
Nested(field) ==
    IF field.kind = "absent" THEN Str(<<"N/A">>)
    ELSE Get(field.display_name, Str(<<"N/A">>))

\* bool(job.get('description'))
Truthy(field) == field.kind = "str" /\ field.s # <<>>

\* job.get('description', '')[:300] + '...' if job.get('description')
\* else 'No description'
Excerpt(field) ==
    IF Truthy(field)
    THEN SubSeq(field.s, 1, IF Len(field.s) < ExcerptLen THEN Len(field.s) ELSE ExcerptLen)
            \o <<"...">>
    ELSE <<"No description">>

JobRaises(job) == NestedRaises(job.company) \/ NestedRaises(job.location)

\* job_details of one record.
job_details(job) ==
    [title |-> Render(Get(job.title, Str(<<"N/A">>))),
     company |-> Render(Nested(job.company)),
     location |-> Render(Nested(job.location)),
     salary |-> Render(Get(job.salary_min, Str(<<"Not specified">>))),
     description |-> Excerpt(job.description),
     url |-> Render(Get(job.redirect_url, Str(<<"N/A">>)))]

formatted_job(d) ==
    <<"\nTitle: ">> \o d.title \o <<"\nCompany: ">> \o d.company
        \o <<"\nLocation: ">> \o d.location \o <<"\nSalary: ">> \o d.salary
        \o <<"\nDescription: ">> \o d.description \o <<"\nURL: ">> \o d.url
        \o <<"\n---">>

\* '\n'.join(job_listings)
RECURSIVE JoinJobs(_)
JoinJobs(jobs) ==
    IF jobs = <<>> THEN <<>>
    ELSE formatted_job(job_details(Head(jobs)))
            \o (IF Tail(jobs) = <<>> THEN <<>> ELSE <<"\n">>)
            \o JoinJobs(Tail(jobs))

NoJobsFound == <<"No jobs found for the specified criteria.">>

Returned(text) == [kind |-> "returned", text |-> text]
Raised(error) == [kind |-> "raised", error |-> error]

\* The second try block: the request, the mapping of the records, and the
\* three except clauses.
HttpResult(http) ==
    IF http.kind = "connection error" THEN Returned(<<"Request Error: ", "connection">>)
    ELSE IF http.kind = "http error" THEN Returned(<<"HTTP Error: ", "status">>)
    ELSE IF http.kind = "body not json" THEN Returned(<<"Request Error: ", "json">>)
    ELSE IF http.kind = "body not object"
         THEN Returned(<<"Unexpected error: ", "'list' object has no attribute 'get'">>)
    ELSE IF http.results.kind = "absent" THEN Returned(NoJobsFound)
    ELSE IF http.results.kind = "null"
         THEN Returned(<<"Unexpected error: ", "'NoneType' object is not iterable">>)
    ELSE IF \E i \in 1..Len(http.results.items) : JobRaises(http.results.items[i])
         THEN Returned(<<"Unexpected error: ", "'NoneType' object has no attribute 'get'">>)
    ELSE IF http.results.items = <<>> THEN Returned(NoJobsFound)
    ELSE Returned(JoinJobs(http.results.items))

\* The GET request: the fixed URL and the query parameters.
Request(input) ==
    [url |-> "http://api.adzuna.com/v1/api/jobs/us/search/1",
     app_id |-> "ADZUNA_APP_ID", app_key |-> "ADZUNA_API_KEY",
     results_per_page |-> IF "num_results" \in input.keys THEN "num_results" ELSE "5",
     what |-> "role", where |-> "location"]

\* The tool gets as far as requests.get.
IssuesRequest(env, input) ==
    /\ missing_vars(env) = <<>>
    /\ ValidateInput(input) = "ok"
    /\ Getenv(env, "ADZUNA_APP_ID") /\ Getenv(env, "ADZUNA_API_KEY")

\* What a call of the tool ends with.
ToolResult(env, input, http) ==
    IF missing_vars(env) # <<>> THEN Returned(ConfigError(missing_vars(env)))
    ELSE IF ValidateInput(input) \in {"JSONDecodeError", "KeyError"}
         THEN Returned(SchemaError)
    ELSE IF ValidateInput(input) = "TypeError" THEN Raised("TypeError")
    ELSE IF ~(Getenv(env, "ADZUNA_APP_ID") /\ Getenv(env, "ADZUNA_API_KEY"))
         THEN Returned(CredentialsError)
    ELSE HttpResult(http)

\* Before a call of the tool.
InitTool ==
    /\ pc = "tool"
    /\ resume_path = <<>>
    /\ resume_content = <<>>
    /\ direct_ret = <<>>
    /\ file_exists = "unchecked"
    /\ primary = NotTried
    /\ secondary = NotTried
    /\ secondary_calls = 0
    /\ description = [t \in TaskSet |-> <<>>]
    /\ crewInit
    /\ toolInit

\* One call of the tool, from its first line to its return (or its raise).
tool_search_jobs ==
    /\ pc = "tool"
    /\ \E env \in Envs, input \in ToolInputs :
        \E http \in (IF IssuesRequest(env, input) THEN HttpOutcomes ELSE {NoRequest}) :
            /\ tool_env' = env
            /\ tool_input' = input
            /\ tool_http' = http
            /\ tool_ret' = ToolResult(env, input, http)
            /\ http_requests' = http_requests
                    \o (IF IssuesRequest(env, input) THEN <<Request(input)>> ELSE <<>>)
    /\ pc' = "tool done"
    /\ UNCHANGED <<resumeVars, description, crewVars>>

NextTool == tool_search_jobs

SpecTool == InitTool /\ [][NextTool]_vars

\* ------------------------------------------------- claims on the resume

\* parse_resume has finished: self.resume_content has its final value.
ResumeStored == pc \in {"setup", "idle"}

\* The PyPDF2 block ended without text: it threw (open, the reader, or
\* str + None), or its text was only whitespace.
SecondaryFailed ==
    /\ secondary # NotTried
    /\ \/ secondary.kind = "throw"
       \/ PyPdf2Raises(secondary.pages)
       \/ IsBlank(PyPdf2Text(secondary.pages))

\* The text of the first backend that produced non-whitespace text.
FirstText ==
    IF PrimaryReturns(primary) THEN PlumberText(primary.pages)
    ELSE PyPdf2Text(secondary.pages)

\* C5: for an existing file, PyPDF2 is tried iff pdfplumber throws or yields
\* only whitespace, and at most once; the stored resume text is empty exactly
\* when PyPDF2 was tried and threw or yielded only whitespace, and is
\* otherwise the text of the first backend that produced non-whitespace text.
C5_FallbackDecidesStoredText ==
    (ResumeStored /\ file_exists = "yes") =>
        /\ (secondary # NotTried) <=> ~PrimaryReturns(primary)
        /\ secondary_calls <= 1
        /\ (resume_content = <<>>) <=> SecondaryFailed
        /\ ~SecondaryFailed => resume_content = ParsedMessage(FirstText)

\* C6: for a path that is not an existing file the stored resume text is
\* empty, whatever the path's characters.
C6_MissingFileStoresNothing ==
    (ResumeStored /\ file_exists = "no") => resume_content = <<>>

\* --------------------------------------------------- claims on the crew

StageOrder ==
    <<"job_search_task", "skills_analysis_task", "interview_prep_task",
      "career_strategy_task">>

\* The stages each stage declares as its dependencies.
Dependencies(t) ==
    CASE t = "job_search_task" -> {}
      [] t = "skills_analysis_task" -> {"job_search_task"}
      [] t = "interview_prep_task" -> {"job_search_task", "skills_analysis_task"}
      [] t = "career_strategy_task" -> {"job_search_task", "skills_analysis_task"}

InSeq(x, seq) == \E i \in 1..Len(seq) : seq[i] = x

\* C1: a successful run produces exactly the four stage results, in the order
\* Search, SkillsGap, InterviewPrep, CareerStrategy; a stage that has started
\* has every declared dependency completed, and its input contains the full
\* output of each.
C1_StagesInOrderWithContext ==
    /\ (pc = "idle" /\ ret.kind = "result") =>
            /\ completed = StageOrder
            /\ ret.tasks_output = [i \in 1..4 |-> task_output[StageOrder[i]].text]
    /\ \A i \in 1..Len(started) : \A d \in Dependencies(started[i]) :
            /\ InSeq(d, completed)
            /\ task_output[d].kind = "text"
            /\ Contains(task_input[started[i]], task_output[d].text)

\* A successful run has ended, with different outputs of the first two stages.
C1_Witness ==
    /\ pc = "idle"
    /\ ret.kind = "result"
    /\ task_output["job_search_task"] # task_output["skills_analysis_task"]
    /\ Len(started) = 4

\* The section of the log for stage t: its title line, then its result.
SectionOf(t) ==
    <<[kind |-> "title", agent |-> AgentOf(t), description |-> description[t]],
      [kind |-> "result", result |-> task_output[t].text]>>

RECURSIVE SectionsOf(_)
SectionsOf(ts) ==
    IF ts = <<>> THEN <<>> ELSE SectionOf(Head(ts)) \o SectionsOf(Tail(ts))

\* No stage is between its completion and its callback.
BetweenStages == pc \in {"kickoff", "executing", "raised", "idle"}

\* C2 as stated: whenever a stage is about to start or is running (and at the
\* end of the run) the log is the header followed by the section of every
\* completed stage, in completion order.
C2_LogHasEveryCompletedStage ==
    (runs > 0 /\ BetweenStages) =>
        log = <<Header(query, resume_content)>> \o SectionsOf(completed)

\* What a callback left in the log: the section; its title line alone when
\* the second write raised; nothing when open raised.
LeftBy(cb) ==
    IF cb.outcome = "written" THEN SectionOf(cb.task)
    ELSE IF cb.outcome = "result raises" THEN <<SectionOf(cb.task)[1]>>
    ELSE <<>>

RECURSIVE LeftByAll(_)
LeftByAll(cbs) ==
    IF cbs = <<>> THEN <<>> ELSE LeftBy(Head(cbs)) \o LeftByAll(Tail(cbs))

\* C2 amended: the callback of stage k has run before stage k+1 starts, and
\* the log is the header followed, in completion order, by what the callbacks
\* of the completed stages left: the stage's section, or, when a write raised
\* (the callback catches it and the run goes on), its title line or nothing.
C2_LogIsWhatTheCallbacksLeft ==
    runs > 0 =>
        /\ log = <<Header(query, resume_content)>> \o LeftByAll(callbacks)
        /\ [i \in 1..Len(callbacks) |-> callbacks[i].task]
                = SubSeq(completed, 1, Len(callbacks))
        /\ BetweenStages => Len(callbacks) = Len(completed)
        /\ pc = "callback" => Len(callbacks) = Len(completed) - 1

\* The third stage runs; the first stage's write failed, the second's did not.
C2_Witness ==
    /\ pc = "executing"
    /\ Len(callbacks) = 2
    /\ callbacks[1].outcome = "open raises"
    /\ callbacks[2].outcome = "written"
    /\ Len(log) = 3

\* C3: once the backend has thrown at a stage of the run, that stage is the
\* last one started and was started once, nothing more is written to the log,
\* and search_jobs returns None.
C3_BackendThrowAbortsRun ==
    [][failed' # "" =>
            /\ started'[Len(started')] = failed'
            /\ Cardinality({i \in 1..Len(started') : started'[i] = failed'}) = 1
            /\ started' = started
            /\ log' = log
            /\ pc' \in {"raised", "idle"}
            /\ pc' = "idle" => ret' = [kind |-> "None"]]_vars

\* The third stage failed after two sections were written; None was returned.
C3_Witness ==
    /\ pc = "idle"
    /\ failed = "interview_prep_task"
    /\ ret = [kind |-> "None"]
    /\ Len(log) = 5

\* C4: from the start of a search on, the log begins with that search's
\* header and holds nothing written by an earlier search.
C4_LogHoldsOnlyTheCurrentSearch ==
    runs > 0 =>
        /\ log[1] = Header(query, resume_content)
        /\ \A i \in 1..Len(log) : log_run[i] = runs
        /\ \A i \in 2..Len(log) : log[i].kind # "header"

\* The second search has ended and left sections in the log.
C4_Witness ==
    /\ runs = 2
    /\ pc = "idle"
    /\ ret.kind = "result"
    /\ Len(log) = 9

\* The fallback sentence C10 names (the source writes its dash as a hyphen
\* and ends the sentence with a period).
ClaimedFallback ==
    <<"No resume provided", " - ", "provide general recommendations">>

\* C10 as stated: each of the four descriptions contains the resume text when
\* there is one, and the fallback sentence when there is none.
C10_EveryTaskHasResumeOrFallback ==
    \A t \in TaskSet :
        IF resume_content # <<>> THEN Contains(description[t], resume_content)
        ELSE Contains(description[t], ClaimedFallback)

\* The sentence of each of the three later stages for a missing resume.
OwnFallback(t) ==
    CASE t = "skills_analysis_task" ->
            <<"No resume provided", " - ", "provide general recommendations", ".">>
      [] t = "interview_prep_task" ->
            <<"Provide general interview preparation advice.">>
      [] t = "career_strategy_task" ->
            <<"Provide general career strategy advice.">>

\* C10 amended: the descriptions of SkillsGap, InterviewPrep and
\* CareerStrategy contain the resume text when there is one, and otherwise
\* each its own sentence; the Search description contains neither, before
\* and after search_jobs has replaced it.
C10_ResumeOrOwnFallbackInLaterTasks ==
    /\ \A t \in TaskSet \ {"job_search_task"} :
        IF resume_content # <<>>
        THEN /\ Contains(description[t], resume_content)
             /\ ~Contains(description[t], OwnFallback(t))
        ELSE Contains(description[t], OwnFallback(t))
    /\ resume_content # <<>> =>
            ~Contains(description["job_search_task"], resume_content)
    /\ \A t \in TaskSet \ {"job_search_task"} :
            ~Contains(description["job_search_task"], OwnFallback(t))

\* A parsed resume, and search_jobs has replaced the Search description.
C10_Witness ==
    /\ runs > 0
    /\ resume_content # <<>>
    /\ description["job_search_task"] = SearchDescription(query)

\* --------------------------------------------------- claims on the tool

\* The tool was called and the response held a results array.
GotResults ==
    /\ pc = "tool done"
    /\ tool_http.kind = "body"
    /\ tool_http.results.kind = "list"

\* The excerpt C7 states for a description.
ClaimedExcerpt(field) ==
    IF field.kind = "str" /\ Len(field.s) > 300
        THEN SubSeq(field.s, 1, 300) \o <<"...">>
    ELSE IF field.kind = "str" /\ field.s # <<>> THEN field.s
    ELSE <<"No description">>

\* C7: the excerpt of a description of more than 300 characters is its first
\* 300 characters and '...'; of a non-empty one of at most 300 characters,
\* the description unchanged; of a missing or empty one, 'No description'.
C7_ExcerptKeepsShortDescriptions ==
    GotResults =>
        \A i \in 1..Len(tool_http.results.items) :
            LET job == tool_http.results.items[i]
            IN  ~JobRaises(job) =>
                    /\ job_details(job).description = ClaimedExcerpt(job.description)
                    /\ (\A k \in 1..Len(tool_http.results.items) :
                            ~JobRaises(tool_http.results.items[k]))
                        => Contains(tool_ret.text,
                                <<"\nDescription: ">>
                                    \o ClaimedExcerpt(job.description)
                                    \o <<"\nURL: ">>)

\* The placeholder C8 states for a field that is absent.
IsMissing(field) ==
    \/ field.kind \in {"absent", "null"}
    \/ field.kind = "object" /\ field.display_name.kind = "absent"

CountOf(sym, text) == Cardinality({i \in 1..Len(text) : text[i] = sym})

\* C8: every record of the results array becomes one listing; a record in
\* which title, company(.display_name), location(.display_name), salary_min,
\* description or redirect_url is absent (for company and location: the
\* object missing or null) gets the placeholder there, and the call returns
\* the listings of all records, not an error.
C8_MissingFieldsGetPlaceholders ==
    (GotResults /\ tool_http.results.items # <<>>) =>
        /\ tool_ret.kind = "returned"
        /\ CountOf("\n---", tool_ret.text) = Len(tool_http.results.items)
        /\ CountOf("Unexpected error: ", tool_ret.text) = 0
        /\ \A i \in 1..Len(tool_http.results.items) :
            LET job == tool_http.results.items[i]
            IN  /\ job.title.kind = "absent" =>
                    Contains(tool_ret.text, <<"\nTitle: ", "N/A", "\nCompany: ">>)
                /\ IsMissing(job.company) =>
                    Contains(tool_ret.text, <<"\nCompany: ", "N/A", "\nLocation: ">>)
                /\ IsMissing(job.location) =>
                    Contains(tool_ret.text, <<"\nLocation: ", "N/A", "\nSalary: ">>)
                /\ job.salary_min.kind = "absent" =>
                    Contains(tool_ret.text,
                             <<"\nSalary: ", "Not specified", "\nDescription: ">>)
                /\ job.description.kind = "absent" =>
                    Contains(tool_ret.text,
                             <<"\nDescription: ", "No description", "\nURL: ">>)
                /\ job.redirect_url.kind = "absent" =>
                    Contains(tool_ret.text, <<"\nURL: ", "N/A", "\n---">>)

\* The credentials the environment does not give a value.
MissingNames == {v \in EnvNames : tool_env[v] # "set"}

\* The names a configuration error lists, one per bullet line.
ListedNames(text) ==
    {text[i + 1] : i \in {k \in 1..(Len(text) - 1) : text[k] = "   - "}}

\* C9: when some credentials are missing the tool returns (it does not raise),
\* issues no HTTP request, and the returned configuration error lists exactly
\* the missing names, each once.
C9_ConfigErrorListsExactlyTheMissing ==
    (pc = "tool done" /\ MissingNames # {}) =>
        /\ tool_ret.kind = "returned"
        /\ tool_ret.text[1] = "Missing required environment variables in .env file:\n"
        /\ ListedNames(tool_ret.text) = MissingNames
        /\ CountOf("   - ", tool_ret.text) = Cardinality(MissingNames)
        /\ http_requests = <<>>
        /\ tool_http = NoRequest

\* A call with exactly one credential missing, on a well-formed query.
C9_Witness ==
    /\ pc = "tool done"
    /\ MissingNames = {"ADZUNA_APP_ID"}
    /\ tool_input = [kind |-> "object", keys |-> {"role", "location"}]
    /\ tool_ret.kind = "returned"

\* ------------------------------------------- claims on the PyPDF2 block

\* PyPDF2 opened the file and gave its pages, one of which has text that is
\* not only whitespace.
SecondaryHasText ==
    /\ ResumeStored
    /\ secondary # NotTried
    /\ secondary.kind = "pages"
    /\ \E i \in 1..Len(secondary.pages) :
        /\ secondary.pages[i].kind = "text"
        /\ ~IsBlank(secondary.pages[i].text)

\* The text the pdfplumber block's strategy gives for the same pages: a page
\* without text (None or "") is skipped, the others are joined in page order.
SkippingText(ps) == PlumberText(ps)

\* C11: the PyPDF2 block treats pages as the pdfplumber block does: a page
\* without text (None or "") is skipped and does not make the extraction
\* fail; when another page has text, the block returns a successful parse
\* with the text of the other pages in page order.
C11_SecondarySkipsPagesWithoutText ==
    SecondaryHasText =>
        /\ direct_ret = ParsedMessage(SkippingText(secondary.pages))
        /\ resume_content = direct_ret

\* ------------------------------------------- claims on the tool's totality

\* C12: for every input and every outcome of the HTTP call the tool returns
\* a text that says what happened; no exception leaves it.
C12_ToolAlwaysReturnsText ==
    pc = "tool done" =>
        /\ tool_ret.kind = "returned"
        /\ tool_ret.text # <<>>

=============================================================================
